---------------------------- MODULE Spec2Model ----------------------------
(***************************************************************************)
(* State-machine model of easy_s3_multipart: the S3MultipartHandler facade *)
(* (handler.py), its configuration (config.py) and the storage provider it *)
(* delegates to.  Strings are sequences of one-character strings so that   *)
(* split / lower / prefix tests are computed, not assumed.  Times are      *)
(* seconds counted from 2025-12-10 00:00:00 UTC.                           *)
(***************************************************************************)
EXTENDS Integers, Sequences, FiniteSets, Bags, TLC

VARIABLES bucket_name, config, uploads, objects, nextId, now, last, sweep

vars == <<bucket_name, config, uploads, objects, nextId, now, last, sweep>>

(***************************************************************************)
(* Bounds of the model.                                                    *)
(***************************************************************************)
\* file sizes run up to MaxParts parts (plus or minus one byte)
MaxParts == 2
\* number of multipart uploads the provider creates in one behaviour
MaxUploads == 1
\* the clock advances at most MaxTicks times, by a second or by a day
MaxTicks == 1
\* longest parts list handed to complete_upload
MaxListLen == 2
\* largest page_size / page handed to list_files
MaxPage == 3

(***************************************************************************)
(* Program constants.                                                      *)
(***************************************************************************)
\* config.py:41  ge=5 * 1024 * 1024
MinPartSize == 5 * 1024 * 1024
\* handler.py:221  part_number > 10000
MaxPartNumber == 10000
\* timedelta(days=1) in seconds
SecondsPerDay == 86400
\* transport page length of the list_objects_v2 paginator
ListPageLen == 2

\* no cleanup_incomplete_uploads call is between its listing and its return
Idle == [pc |-> "idle"]

\* Optional[...] values: None, or a value
NoneV == [some |-> FALSE, value |-> <<>>]

Some(v) == [some |-> TRUE, value |-> v]

\* Python truthiness of an Optional string or list: None and the empty
\* string / list are false
Truthy(o) == o.some /\ o.value # <<>>

(***************************************************************************)
(* Strings.                                                                *)
(***************************************************************************)
Range(s) == {s[i] : i \in 1..Len(s)}

UpperChars ==
  <<"A","B","C","D","E","F","G","H","I","J","K","L","M",
    "N","O","P","Q","R","S","T","U","V","W","X","Y","Z">>

LowerChars ==
  <<"a","b","c","d","e","f","g","h","i","j","k","l","m",
    "n","o","p","q","r","s","t","u","v","w","x","y","z">>

\* str.lower() on one character
LowerChar(c) ==
  IF \E i \in 1..26 : UpperChars[i] = c
  THEN LowerChars[CHOOSE i \in 1..26 : UpperChars[i] = c]
  ELSE c

\* str.lower()
Lower(s) == [i \in 1..Len(s) |-> LowerChar(s[i])]

\* str.split(sep) for a one-character separator
RECURSIVE Split(_, _)
Split(s, sep) ==
  IF sep \notin Range(s)
  THEN <<s>>
  ELSE LET i == CHOOSE j \in 1..Len(s) :
                   s[j] = sep /\ \A k \in 1..(j - 1) : s[k] # sep
       IN  <<SubSeq(s, 1, i - 1)>> \o Split(SubSeq(s, i + 1, Len(s)), sep)

\* xs[-1]
LastOf(xs) == xs[Len(xs)]

Digits == <<"0","1","2","3","4","5","6","7","8","9">>

\* the characters of keys and timestamps, in code-point order
Alphabet ==
  <<"+", "-", ".", "/">> \o Digits \o <<":">> \o UpperChars \o <<"_">>
    \o LowerChars

CharCode(c) == CHOOSE i \in 1..Len(Alphabet) : Alphabet[i] = c

\* a < b for strings: decided at the first place where they differ
LexLess(a, b) ==
  LET m == IF Len(a) < Len(b) THEN Len(a) ELSE Len(b)
      differ == {i \in 1..m : a[i] # b[i]}
  IN  IF differ = {} THEN Len(a) < Len(b)
      ELSE LET i == CHOOSE x \in differ : \A y \in differ : x <= y
           IN  CharCode(a[i]) < CharCode(b[i])

\* str.startswith
StartsWith(s, p) == Len(p) <= Len(s) /\ SubSeq(s, 1, Len(p)) = p

(***************************************************************************)
(* Configuration (config.py).                                              *)
(***************************************************************************)
PartSizes == {MinPartSize, MinPartSize + 1}

MaxFileSizes == {MinPartSize, MaxParts * MinPartSize}

AllowLists ==
  {NoneV, Some(<<>>), Some(<< <<"p","d","f">> >>),
   Some(<< <<"p","d","f">>, <<"g","z">> >>)}

BucketNames == {<<"b">>}

\* S3Config: every field is an unconstrained or range-checked integer,
\* list or string; these are the configurations the model draws
S3Config ==
  [bucket_name : BucketNames,
   part_size : PartSizes,
   presigned_url_expiry : {3600},
   max_file_size : MaxFileSizes,
   allowed_extensions : AllowLists]


(***************************************************************************)
(* Time and key formatting (handler.py:136-147).                           *)
(***************************************************************************)
\* "%02d"
Fmt2(n) == <<Digits[(n \div 10) + 1], Digits[(n % 10) + 1]>>

\* timestamp.strftime('%Y/%m/%d'); the clock stays within December 2025
StrfDate(t) ==
  <<"2","0","2","5","/","1","2","/">> \o Fmt2(10 + (t \div SecondsPerDay))

\* timestamp.strftime('%H%M%S')
StrfTime(t) ==
  LET s == t % SecondsPerDay
  IN  Fmt2(s \div 3600) \o Fmt2((s % 3600) \div 60) \o Fmt2(s % 60)

DefaultPrefix == <<"u","p","l","o","a","d","s">>

GenerateS3KeyTimeFirst(filename, prefix, t) ==
  prefix \o <<"/">> \o StrfTime(t) \o <<"/">> \o StrfDate(t)
         \o <<"_">> \o filename

\* S3MultipartHandler._generate_s3_key
GenerateS3Key(filename, prefix, t) ==
  prefix \o <<"/">> \o StrfDate(t) \o <<"/">> \o StrfTime(t)
         \o <<"_">> \o filename

(***************************************************************************)
(* Validation (handler.py:114-134).                                        *)
(***************************************************************************)
SizeRejectedOffByOne(cfg, file_size) == file_size > cfg.max_file_size + 1

\* handler.py:124
SizeRejected(cfg, file_size) == file_size > cfg.max_file_size

\* handler.py:130  filename.split(".")[-1].lower()
Extension(filename) == Lower(LastOf(Split(filename, ".")))

\* handler.py:129-131
ExtensionRejected(cfg, filename) ==
  /\ Truthy(cfg.allowed_extensions)
  /\ Extension(filename) \notin Range(cfg.allowed_extensions.value)

\* S3MultipartHandler._validate_file: the error it raises, or "none"
ValidateFile(cfg, filename, file_size) ==
  IF SizeRejected(cfg, file_size) THEN "S3ValidationError"
  ELSE IF ExtensionRejected(cfg, filename) THEN "S3ValidationError"
  ELSE "none"

\* handler.py:187
PartsCount(cfg, file_size) ==
  (file_size + cfg.part_size - 1) \div cfg.part_size

(***************************************************************************)
(* Initial state: a handler constructed over an empty bucket.              *)
(***************************************************************************)
Init ==
  /\ bucket_name \in BucketNames
  /\ config \in S3Config
  /\ uploads = {}
  /\ objects = <<>>
  /\ nextId = 1
  /\ now = 0
  /\ last = [op |-> "__init__", error |-> "none", calls |-> <<>>]
  /\ sweep = Idle

(***************************************************************************)
(* initiate_upload (handler.py:149-203).                                   *)
(***************************************************************************)
InitiateUpload(filename, file_size, custom_key, ok) ==
  LET err == ValidateFile(config, filename, file_size)
      key == IF Truthy(custom_key) THEN custom_key.value
             ELSE GenerateS3Key(filename, DefaultPrefix, now)
      call == [api |-> "create_multipart_upload", Bucket |-> bucket_name,
               Key |-> key, ok |-> ok]
      args == [op |-> "initiate_upload", filename |-> filename,
               file_size |-> file_size, custom_key |-> custom_key]
  IN  IF err # "none"
      THEN /\ last' = args @@ [error |-> err, calls |-> <<>>]
           /\ UNCHANGED <<bucket_name, config, uploads, objects, nextId, now, sweep>>
      ELSE IF ok
      THEN /\ nextId <= MaxUploads
           /\ uploads' = uploads \cup
                 {[UploadId |-> nextId, Key |-> key, Initiated |-> now]}
           /\ nextId' = nextId + 1
           /\ last' = args @@
                 [error |-> "none", calls |-> <<call>>,
                  response |-> [upload_id |-> nextId, key |-> key,
                                bucket |-> bucket_name,
                                parts_count |-> PartsCount(config, file_size),
                                part_size |-> config.part_size]]
           /\ UNCHANGED <<bucket_name, config, objects, now, sweep>>
      ELSE /\ last' = args @@ [error |-> "S3InitiationError",
                                calls |-> <<call>>]
           /\ UNCHANGED <<bucket_name, config, uploads, objects, nextId, now, sweep>>

(***************************************************************************)
(* generate_presigned_url (handler.py:205-244).                            *)
(***************************************************************************)
PartNumberRejectedAtLimit(part_number) ==
  part_number < 1 \/ part_number >= MaxPartNumber

\* handler.py:221
PartNumberRejected(part_number) ==
  part_number < 1 \/ part_number > MaxPartNumber

GeneratePresignedUrlForOpenSession(upload_id, key, part_number, ok) ==
  LET call == [api |-> "generate_presigned_url", method |-> "upload_part",
               Bucket |-> bucket_name, Key |-> key, UploadId |-> upload_id,
               PartNumber |-> part_number,
               ExpiresIn |-> config.presigned_url_expiry, ok |-> ok]
      args == [op |-> "generate_presigned_url", upload_id |-> upload_id,
               key |-> key, part_number |-> part_number]
  IN  /\ last' =
           IF \/ PartNumberRejected(part_number)
              \/ ~\E u \in uploads : u.UploadId = upload_id /\ u.Key = key
           THEN args @@ [error |-> "S3ValidationError", calls |-> <<>>]
           ELSE IF ok
           THEN args @@
                [error |-> "none", calls |-> <<call>>,
                 response |-> [url |-> call, part_number |-> part_number,
                               expires_in |-> config.presigned_url_expiry]]
           ELSE args @@ [error |-> "S3UploadError", calls |-> <<call>>]
      /\ UNCHANGED <<bucket_name, config, uploads, objects, nextId, now,
                     sweep>>

GeneratePresignedUrl(upload_id, key, part_number, ok) ==
  LET call == [api |-> "generate_presigned_url", method |-> "upload_part",
               Bucket |-> bucket_name, Key |-> key, UploadId |-> upload_id,
               PartNumber |-> part_number,
               ExpiresIn |-> config.presigned_url_expiry, ok |-> ok]
      args == [op |-> "generate_presigned_url", upload_id |-> upload_id,
               key |-> key, part_number |-> part_number]
  IN  /\ last' =
           IF PartNumberRejected(part_number)
           THEN args @@ [error |-> "S3ValidationError", calls |-> <<>>]
           ELSE IF ok
           THEN args @@
                [error |-> "none", calls |-> <<call>>,
                 response |-> [url |-> call, part_number |-> part_number,
                               expires_in |-> config.presigned_url_expiry]]
           ELSE args @@ [error |-> "S3UploadError", calls |-> <<call>>]
      /\ UNCHANGED <<bucket_name, config, uploads, objects, nextId, now, sweep>>

(***************************************************************************)
(* complete_upload (handler.py:246-287).                                   *)
(***************************************************************************)
PartsRejectedNever(parts) == FALSE

\* handler.py:262  if not parts
PartsRejected(parts) == parts = <<>>

SortPartsDescending(parts) ==
  LET n == Len(parts)
      place(i) ==
        1 + Cardinality({j \in 1..n :
              \/ parts[j].PartNumber > parts[i].PartNumber
              \/ parts[j].PartNumber = parts[i].PartNumber /\ j < i})
  IN  IF n = 0 THEN <<>>
      ELSE [p \in 1..n |-> parts[CHOOSE i \in 1..n : place(i) = p]]

\* handler.py:266  sorted(parts, key=lambda x: x["PartNumber"]): a stable
\* sort; parts[i] lands after every part with a smaller number and after
\* the parts with its own number that stood before it
SortParts(parts) ==
  LET n == Len(parts)
      place(i) ==
        1 + Cardinality({j \in 1..n :
              \/ parts[j].PartNumber < parts[i].PartNumber
              \/ parts[j].PartNumber = parts[i].PartNumber /\ j < i})
  IN  IF n = 0 THEN <<>>
      ELSE [p \in 1..n |-> parts[CHOOSE i \in 1..n : place(i) = p]]

\* the provider's store without the object of a key
WithoutKey(objs, key) ==
  LET Other(o) == o.Key # key
  IN  SelectSeq(objs, Other)

\* the provider's store, kept in ascending key order, after an object is
\* written: the object replaces the one of its key
PutObject(objs, obj) ==
  LET rest == WithoutKey(objs, obj.Key)
      k == Cardinality({i \in 1..Len(rest) : LexLess(rest[i].Key, obj.Key)})
  IN  SubSeq(rest, 1, k) \o <<obj>> \o SubSeq(rest, k + 1, Len(rest))

\* the in-progress upload a provider call names, if any
UploadsNamed(upload_id, key) ==
  {u \in uploads : u.UploadId = upload_id /\ u.Key = key}

CompleteUpload(upload_id, key, parts, ok) ==
  LET parts_sorted == SortParts(parts)
      call == [api |-> "complete_multipart_upload", Bucket |-> bucket_name,
               Key |-> key, UploadId |-> upload_id, Parts |-> parts_sorted,
               ok |-> ok]
      args == [op |-> "complete_upload", upload_id |-> upload_id,
               key |-> key, parts |-> parts]
  IN  IF PartsRejected(parts)
      THEN /\ last' = args @@ [error |-> "S3ValidationError", calls |-> <<>>]
           /\ UNCHANGED <<bucket_name, config, uploads, objects, nextId, now, sweep>>
      ELSE IF ok
      THEN /\ UploadsNamed(upload_id, key) # {}
           /\ uploads' = uploads \ UploadsNamed(upload_id, key)
           /\ objects' = PutObject(objects,
                                    [Key |-> key, LastModified |-> now])
           /\ last' = args @@
                 [error |-> "none", calls |-> <<call>>,
                  response |-> [success |-> TRUE,
                                location |-> <<bucket_name, key>>,
                                key |-> key, bucket |-> bucket_name]]
           /\ UNCHANGED <<bucket_name, config, nextId, now, sweep>>
      ELSE /\ last' = args @@ [error |-> "S3UploadError", calls |-> <<call>>]
           /\ UNCHANGED <<bucket_name, config, uploads, objects, nextId, now, sweep>>

(***************************************************************************)
(* abort_upload (handler.py:289-307).                                      *)
(***************************************************************************)
AbortUploadOldestOfKey(upload_id, key, ok) ==
  LET call == [api |-> "abort_multipart_upload", Bucket |-> bucket_name,
               Key |-> key, UploadId |-> upload_id, ok |-> ok]
      args == [op |-> "abort_upload", upload_id |-> upload_id, key |-> key]
      ofKey == {u \in uploads : u.Key = key}
      gone == IF UploadsNamed(upload_id, key) # {}
              THEN UploadsNamed(upload_id, key)
              ELSE {u \in ofKey : \A v \in ofKey : u.UploadId <= v.UploadId}
  IN  IF ok
      THEN /\ ofKey # {}
           /\ uploads' = uploads \ gone
           /\ last' = args @@ [error |-> "none", calls |-> <<call>>]
           /\ UNCHANGED <<bucket_name, config, objects, nextId, now, sweep>>
      ELSE /\ last' = args @@ [error |-> "S3UploadError", calls |-> <<call>>]
           /\ UNCHANGED <<bucket_name, config, uploads, objects, nextId, now,
                          sweep>>

\* abort_multipart_upload succeeds for an upload in progress; for any
\* other (upload_id, key) the provider answers NoSuchUpload
AbortUpload(upload_id, key, ok) ==
  LET call == [api |-> "abort_multipart_upload", Bucket |-> bucket_name,
               Key |-> key, UploadId |-> upload_id, ok |-> ok]
      args == [op |-> "abort_upload", upload_id |-> upload_id, key |-> key]
  IN  IF ok
      THEN /\ UploadsNamed(upload_id, key) # {}
           /\ uploads' = uploads \ UploadsNamed(upload_id, key)
           /\ last' = args @@ [error |-> "none", calls |-> <<call>>]
           /\ UNCHANGED <<bucket_name, config, objects, nextId, now, sweep>>
      ELSE /\ last' = args @@ [error |-> "S3UploadError", calls |-> <<call>>]
           /\ UNCHANGED <<bucket_name, config, uploads, objects, nextId, now, sweep>>

(***************************************************************************)
(* list_files (handler.py:309-366).                                        *)
(***************************************************************************)
\* list_objects_v2(Bucket, Prefix): every matching object, in key order
ListObjectsV2(prefix) ==
  LET Matches(o) == StartsWith(o.Key, prefix)
  IN  SelectSeq(objects, Matches)

\* the paginator's pages: ListPageLen objects each; an empty listing is one
\* page without "Contents"
NumListPages(listing) ==
  IF listing = <<>> THEN 1
  ELSE (Len(listing) + ListPageLen - 1) \div ListPageLen

ListPage(listing, i) ==
  SubSeq(listing, (i - 1) * ListPageLen + 1,
         IF i * ListPageLen < Len(listing) THEN i * ListPageLen
         ELSE Len(listing))

CollectFirstPageOnly(listing, n) == ListPage(listing, 1)

\* handler.py:329-332  all_objects.extend(page_response["Contents"])
RECURSIVE CollectPages(_, _)
CollectPages(listing, n) ==
  IF n = 0 THEN <<>>
  ELSE CollectPages(listing, n - 1) \o ListPage(listing, n)

\* handler.py:335  all_objects.sort(key=LastModified, reverse=True): a
\* stable sort; objs[i] lands after every newer object and after the
\* objects of its own age that stood before it
SortNewestFirst(objs) ==
  LET n == Len(objs)
      place(i) ==
        1 + Cardinality({j \in 1..n :
              \/ objs[j].LastModified > objs[i].LastModified
              \/ objs[j].LastModified = objs[i].LastModified /\ j < i})
  IN  IF n = 0 THEN <<>>
      ELSE [p \in 1..n |-> objs[CHOOSE i \in 1..n : place(i) = p]]

\* a slice bound as Python clamps it for a list of length n
SliceIndex(i, n) ==
  IF i < 0 THEN (IF i + n < 0 THEN 0 ELSE i + n)
  ELSE (IF i > n THEN n ELSE i)

PySliceThroughEnd(xs, start, end) ==
  SubSeq(xs, SliceIndex(start, Len(xs)) + 1, SliceIndex(end + 1, Len(xs)))

\* handler.py:343  xs[start:end]
PySlice(xs, start, end) ==
  SubSeq(xs, SliceIndex(start, Len(xs)) + 1, SliceIndex(end, Len(xs)))

\* datetime.isoformat() of a provider timestamp (UTC, whole seconds)
IsoFormat(t) ==
  LET s == t % SecondsPerDay
  IN  <<"2","0","2","5","-","1","2","-">>
        \o Fmt2(10 + (t \div SecondsPerDay)) \o <<"T">>
        \o Fmt2(s \div 3600) \o <<":">> \o Fmt2((s % 3600) \div 60)
        \o <<":">> \o Fmt2(s % 60) \o <<"+","0","0",":","0","0">>

\* handler.py:345-354
FileInfo(obj) ==
  [key |-> obj.Key,
   filename |-> LastOf(Split(obj.Key, "/")),
   last_modified |-> IsoFormat(obj.LastModified)]

\* handler.py:339
TotalPages(total_count, page_size) ==
  (total_count + page_size - 1) \div page_size

\* handler.py:337-362: the response built from the collected objects
ListFilesResponse(collected, page, page_size) ==
  LET all_objects == SortNewestFirst(collected)
      total_count == Len(all_objects)
      start_idx == (page - 1) * page_size
      end_idx == start_idx + page_size
      paginated == PySlice(all_objects, start_idx, end_idx)
  IN  [files |-> IF paginated = <<>> THEN <<>>
                 ELSE [i \in 1..Len(paginated) |-> FileInfo(paginated[i])],
       total_count |-> total_count,
       page |-> page,
       page_size |-> page_size,
       total_pages |-> TotalPages(total_count, page_size)]

\* failAt = 0: every page of the listing is fetched; failAt = i: the fetch
\* of page i fails
ListFiles(prefix, page, page_size, failAt) ==
  \E listing \in {ListObjectsV2(prefix)} :
    LET fetched == IF failAt = 0 THEN NumListPages(listing) ELSE failAt
        calls == [i \in 1..fetched |->
                    [api |-> "list_objects_v2", Bucket |-> bucket_name,
                     Prefix |-> prefix, page |-> i, ok |-> (i # failAt)]]
        args == [op |-> "list_files", prefix |-> prefix, page |-> page,
                 page_size |-> page_size]
    IN  /\ failAt \in 0..NumListPages(listing)
        /\ last' =
             IF failAt # 0
             THEN args @@ [error |-> "S3UploadError", calls |-> calls]
             ELSE IF page_size = 0
             THEN args @@ [error |-> "ZeroDivisionError", calls |-> calls]
             ELSE args @@
                  [error |-> "none", calls |-> calls,
                   response |->
                     CHOOSE r \in {ListFilesResponse(
                                     CollectPages(listing, fetched),
                                     page, page_size)} : TRUE]
        /\ UNCHANGED <<bucket_name, config, uploads, objects, nextId, now, sweep>>

(***************************************************************************)
(* generate_download_url (handler.py:368-391).                             *)
(***************************************************************************)
GenerateDownloadUrl(key, expires_in, ok) ==
  LET call == [api |-> "generate_presigned_url", method |-> "get_object",
               Bucket |-> bucket_name, Key |-> key, ExpiresIn |-> expires_in,
               ok |-> ok]
      args == [op |-> "generate_download_url", key |-> key,
               expires_in |-> expires_in]
  IN  /\ last' =
           IF ok
           THEN args @@ [error |-> "none", calls |-> <<call>>,
                         response |-> call]
           ELSE args @@ [error |-> "S3UploadError", calls |-> <<call>>]
      /\ UNCHANGED <<bucket_name, config, uploads, objects, nextId, now, sweep>>

(***************************************************************************)
(* delete_file (handler.py:393-408).                                       *)
(***************************************************************************)
DeleteFileRaisesUploadError(key, ok) ==
  LET call == [api |-> "delete_object", Bucket |-> bucket_name, Key |-> key,
               ok |-> ok]
      args == [op |-> "delete_file", key |-> key]
  IN  IF ok
      THEN /\ objects' = WithoutKey(objects, key)
           /\ last' = args @@ [error |-> "none", calls |-> <<call>>]
           /\ UNCHANGED <<bucket_name, config, uploads, nextId, now, sweep>>
      ELSE /\ last' = args @@ [error |-> "S3UploadError", calls |-> <<call>>]
           /\ UNCHANGED <<bucket_name, config, uploads, objects, nextId, now, sweep>>

DeleteFile(key, ok) ==
  LET call == [api |-> "delete_object", Bucket |-> bucket_name, Key |-> key,
               ok |-> ok]
      args == [op |-> "delete_file", key |-> key]
  IN  IF ok
      THEN /\ objects' = WithoutKey(objects, key)
           /\ last' = args @@ [error |-> "none", calls |-> <<call>>]
           /\ UNCHANGED <<bucket_name, config, uploads, nextId, now, sweep>>
      ELSE /\ last' = args @@ [error |-> "S3DeleteError", calls |-> <<call>>]
           /\ UNCHANGED <<bucket_name, config, uploads, objects, nextId, now, sweep>>

(***************************************************************************)
(* cleanup_incomplete_uploads (handler.py:410-441).                        *)
(***************************************************************************)
\* handler.py:423-441.  list_multipart_uploads answers without "Uploads"
\* when nothing is in progress and the sweep returns 0.  Otherwise line 428
\* evaluates timedelta(days=days_old), a name handler.py never imports
\* (line 21 imports datetime only): NameError is raised before any upload
\* is compared or aborted, and it is not one of the caught provider errors.
CleanupIncompleteUploads(days_old, ok) ==
  LET call == [api |-> "list_multipart_uploads", Bucket |-> bucket_name,
               ok |-> ok]
      args == [op |-> "cleanup_incomplete_uploads", days_old |-> days_old]
  IN  /\ last' =
           IF ~ok
           THEN args @@ [error |-> "S3UploadError", calls |-> <<call>>]
           ELSE IF uploads = {}
           THEN args @@ [error |-> "none", calls |-> <<call>>, response |-> 0]
           ELSE args @@ [error |-> "NameError", calls |-> <<call>>]
      /\ UNCHANGED <<bucket_name, config, uploads, objects, nextId, now, sweep>>

(***************************************************************************)
(* The clock.                                                              *)
(***************************************************************************)
Tick(d) ==
  /\ ((now + d) \div SecondsPerDay) + ((now + d) % SecondsPerDay) <= MaxTicks
  /\ now' = now + d
  /\ UNCHANGED <<bucket_name, config, uploads, objects, nextId, last, sweep>>

TickSteps == {1, SecondsPerDay}

(***************************************************************************)
(* Inputs.                                                                 *)
(***************************************************************************)
Filenames ==
  { <<"a",".","p","d","f">>, <<"a",".","P","D","F">>,
    <<"b",".","p","d","f",".","g","z">>, <<"p","d","f">>,
    <<"a",".","e","x","e">> }

SomeFilenames == { <<"a",".","p","d","f">>, <<"a",".","e","x","e">> }

\* sizes from 0, around every multiple of the part size up to MaxParts
\* parts and around the size limit
FileSizes ==
  {n \in {k * config.part_size + d : k \in 0..MaxParts, d \in {-1, 0, 1}} :
     n >= 0}
    \cup {config.max_file_size, config.max_file_size + 1}

SomeFileSizes == {1, config.part_size + 1, config.max_file_size + 1}

KeyX == <<"x">>

KeyK == <<"u","p","l","o","a","d","s","/","k">>

SomeCustomKeys == {NoneV, Some(KeyX)}

\* the keys a caller can name: those of sessions and objects, and one more
KnownKeys ==
  {u.Key : u \in uploads} \cup {objects[i].Key : i \in 1..Len(objects)} \cup {KeyX}

UploadIds == 1..MaxUploads

PartNumbers == {-1, 0, 1, 2, MaxPartNumber, MaxPartNumber + 1}

SomePartNumbers == {0, 1, 2}

\* two parts share a number, so that order among equals and the pairing of
\* numbers with ETags are visible; one part has a number below 1
Parts ==
  { [PartNumber |-> 1, ETag |-> "e1"], [PartNumber |-> 2, ETag |-> "e1"],
    [PartNumber |-> 2, ETag |-> "e2"], [PartNumber |-> 0, ETag |-> "e1"] }

RECURSIVE SeqsUpTo(_, _)
SeqsUpTo(S, n) ==
  IF n = 0 THEN {<<>>}
  ELSE LET shorter == SeqsUpTo(S, n - 1)
       IN  shorter \cup {Append(s, x) : s \in shorter, x \in S}

PartLists == SeqsUpTo(Parts, MaxListLen)

SomePartLists ==
  { <<>>,
    << [PartNumber |-> 1, ETag |-> "e1"] >>,
    << [PartNumber |-> 2, ETag |-> "e2"], [PartNumber |-> 1, ETag |-> "e1"] >> }

Prefixes == {<<>>, DefaultPrefix \o <<"/">>}

Pages == (-1)..MaxPage

PageSizes == 0..MaxPage

DaysOld == 0..MaxTicks

(***************************************************************************)
(* The facade driven through the whole upload lifecycle.                   *)
(***************************************************************************)
Next ==
  \/ \E f \in SomeFilenames, n \in SomeFileSizes, k \in SomeCustomKeys,
        ok \in BOOLEAN :
        InitiateUpload(f, n, k, ok)
  \/ \E u \in UploadIds, k \in KnownKeys, n \in SomePartNumbers,
        ok \in BOOLEAN :
        GeneratePresignedUrl(u, k, n, ok)
  \/ \E u \in UploadIds, k \in KnownKeys, ps \in SomePartLists, ok \in BOOLEAN :
        CompleteUpload(u, k, ps, ok)
  \/ \E u \in UploadIds, k \in KnownKeys, ok \in BOOLEAN :
        AbortUpload(u, k, ok)
  \/ \E p \in Prefixes, pg \in {1, 2}, sz \in {0, 1}, f \in 0..1 :
        ListFiles(p, pg, sz, f)
  \/ \E k \in KnownKeys, e \in {3600}, ok \in BOOLEAN :
        GenerateDownloadUrl(k, e, ok)
  \/ \E k \in KnownKeys, ok \in BOOLEAN : DeleteFile(k, ok)
  \/ \E d \in DaysOld, ok \in BOOLEAN : CleanupIncompleteUploads(d, ok)
  \/ \E d \in TickSteps : Tick(d)

Spec == Init /\ [][Next]_vars

(***************************************************************************)
(* initiate_upload over every filename and size.                           *)
(***************************************************************************)
NextValidate ==
  \E f \in Filenames, n \in FileSizes, ok \in BOOLEAN :
     InitiateUpload(f, n, Some(KeyX), ok)

SpecValidate == Init /\ [][NextValidate]_vars

(***************************************************************************)
(* The completion request model (models.py:93-126).                        *)
(***************************************************************************)
\* models.py:101  PartNumber: int = Field(..., ge=1)
PartInfoRejected(part) == part.PartNumber < 1

\* sorted(part_numbers)
SortedNumbers(nums) ==
  LET n == Len(nums)
      place(i) ==
        1 + Cardinality({j \in 1..n :
              \/ nums[j] < nums[i]
              \/ nums[j] = nums[i] /\ j < i})
  IN  IF n = 0 THEN <<>>
      ELSE [p \in 1..n |-> nums[CHOOSE i \in 1..n : place(i) = p]]

PartsNotIncreasing(parts) ==
  \E i \in 1..(Len(parts) - 1) :
     parts[i].PartNumber >= parts[i + 1].PartNumber

\* models.py:123-124  sorted(part_numbers) != part_numbers
PartsUnsorted(parts) ==
  LET part_numbers == [i \in 1..Len(parts) |-> parts[i].PartNumber]
  IN  SortedNumbers(part_numbers) # part_numbers

\* CompleteUploadRequest(upload_id=..., key=..., parts=...): every part is
\* validated as a PartInfo, then validate_parts runs on the list
CompleteUploadRequestRejected(parts) ==
  \/ \E i \in 1..Len(parts) : PartInfoRejected(parts[i])
  \/ parts = <<>>
  \/ PartsUnsorted(parts)

NewCompleteUploadRequest(upload_id, key, parts) ==
  /\ last' = [op |-> "CompleteUploadRequest", upload_id |-> upload_id,
              key |-> key, parts |-> parts, calls |-> <<>>,
              error |-> IF CompleteUploadRequestRejected(parts)
                        THEN "ValidationError" ELSE "none"]
  /\ UNCHANGED <<bucket_name, config, uploads, objects, nextId, now, sweep>>

(***************************************************************************)
(* One session: every part number and every parts list.                    *)
(***************************************************************************)
NextSession ==
  \/ \E u \in UploadIds, k \in KnownKeys, ps \in PartLists :
        NewCompleteUploadRequest(u, k, ps)
  \/ \E ok \in BOOLEAN :
        InitiateUpload(<<"a",".","p","d","f">>, 1, Some(KeyX), ok)
  \/ \E u \in UploadIds, k \in KnownKeys, n \in PartNumbers, ok \in BOOLEAN :
        GeneratePresignedUrl(u, k, n, ok)
  \/ \E u \in UploadIds, k \in KnownKeys, ps \in PartLists, ok \in BOOLEAN :
        CompleteUpload(u, k, ps, ok)
  \/ \E u \in UploadIds, k \in KnownKeys, ok \in BOOLEAN :
        AbortUpload(u, k, ok)

SpecSession == Init /\ [][NextSession]_vars

(***************************************************************************)
(* list_files over a bucket that already holds objects.                    *)
(***************************************************************************)
SeedObjects ==
  << [Key |-> DefaultPrefix \o <<"/","a">>, LastModified |-> 3661],
     [Key |-> DefaultPrefix \o <<"/","b">>, LastModified |-> 0],
     [Key |-> DefaultPrefix \o <<"/","c">>, LastModified |-> 3661],
     [Key |-> DefaultPrefix \o <<"/","d","/","e">>,
      LastModified |-> SecondsPerDay],
     [Key |-> KeyX, LastModified |-> SecondsPerDay] >>

\* the buckets a handler can be constructed over: any of the seed objects
SeedBuckets ==
  {LET In(o) == o \in S IN SelectSeq(SeedObjects, In) :
     S \in SUBSET Range(SeedObjects)}

\* listing reads no setting: the defaults of config.py stand for all
DefaultConfig ==
  [bucket_name |-> <<"b">>, part_size |-> MinPartSize,
   presigned_url_expiry |-> 3600, max_file_size |-> MaxParts * MinPartSize,
   allowed_extensions |-> NoneV]

\* the most transport pages a listing of the seeded bucket takes
MaxListPages ==
  (Len(SeedObjects) + ListPageLen - 1) \div ListPageLen

InitList ==
  /\ bucket_name \in BucketNames
  /\ config = DefaultConfig
  /\ uploads = {}
  /\ objects \in SeedBuckets
  /\ nextId = 1
  /\ now = SecondsPerDay
  /\ last = [op |-> "__init__", error |-> "none", calls |-> <<>>]
  /\ sweep = Idle

NextList ==
  \/ \E p \in Prefixes, pg \in Pages, sz \in PageSizes,
        f \in 0..MaxListPages :
        ListFiles(p, pg, sz, f)
  \/ \E k \in KnownKeys, ok \in BOOLEAN : DeleteFile(k, ok)

SpecList == InitList /\ [][NextList]_vars

(***************************************************************************)
(* initiate_upload at different moments, with and without a custom key.    *)
(***************************************************************************)
\* moments at which a handler is constructed: midnight, within the first
\* minute, past the first hour, the last second of a day, the last second
\* of December
ClockTimes ==
  {0, 59, 3661, SecondsPerDay - 1, 21 * SecondsPerDay + (SecondsPerDay - 1)}

CustomKeys == {NoneV, Some(<<>>), Some(KeyX), Some(KeyK)}

InitKey ==
  /\ bucket_name \in BucketNames
  /\ config = DefaultConfig
  /\ uploads = {}
  /\ objects = <<>>
  /\ nextId = 1
  /\ now \in ClockTimes
  /\ last = [op |-> "__init__", error |-> "none", calls |-> <<>>]
  /\ sweep = Idle

NextKey ==
  \/ \E f \in Filenames, k \in CustomKeys, ok \in BOOLEAN :
        InitiateUpload(f, 1, k, ok)
  \/ \E d \in TickSteps : Tick(d)

SpecKey == InitKey /\ [][NextKey]_vars

(***************************************************************************)
(* Constructing a configuration (config.py:23-44).                         *)
(***************************************************************************)
\* config.py:42  ge=60
MinExpiry == 60

\* config.py:42  le=604800
MaxExpiry == 604800

\* the Field constraints of S3Config: part_size and presigned_url_expiry
\* are range-checked; max_file_size (line 43) and allowed_extensions
\* (line 44) carry no constraint
ConfigRejected(fields) ==
  \/ fields.part_size < MinPartSize
  \/ fields.presigned_url_expiry < MinExpiry
  \/ fields.presigned_url_expiry > MaxExpiry

\* S3Config(**fields): pydantic raises ValidationError, or the object is
\* built and becomes the configuration in use
ConstructConfig(fields) ==
  LET args == [op |-> "S3Config", fields |-> fields, calls |-> <<>>]
  IN  IF ConfigRejected(fields)
      THEN /\ last' = args @@ [error |-> "ValidationError"]
           /\ UNCHANGED <<bucket_name, config, uploads, objects, nextId, now, sweep>>
      ELSE /\ config' = fields
           /\ last' = args @@ [error |-> "none"]
           /\ UNCHANGED <<bucket_name, uploads, objects, nextId, now, sweep>>

\* field values on both sides of every limit
ConfigFields ==
  [bucket_name : BucketNames,
   part_size : {MinPartSize - 1, MinPartSize, MinPartSize + 1},
   presigned_url_expiry :
     {MinExpiry - 1, MinExpiry, 3600, MaxExpiry, MaxExpiry + 1},
   max_file_size : {-1, 0, 1, MinPartSize},
   allowed_extensions : {NoneV}]

InitConfig ==
  /\ bucket_name \in BucketNames
  /\ config = DefaultConfig
  /\ uploads = {}
  /\ objects = <<>>
  /\ nextId = 1
  /\ now = 0
  /\ last = [op |-> "__init__", error |-> "none", calls |-> <<>>]
  /\ sweep = Idle

NextConfig ==
  \/ \E fields \in ConfigFields : ConstructConfig(fields)
  \/ \E n \in {1, MinPartSize}, ok \in BOOLEAN :
        InitiateUpload(<<"a",".","p","d","f">>, n, Some(KeyX), ok)

SpecConfig == InitConfig /\ [][NextConfig]_vars

(***************************************************************************)
(* cleanup_incomplete_uploads step by step, among concurrent callers       *)
(* (handler.py:422-441).                                                   *)
(***************************************************************************)
\* list_multipart_uploads(Bucket): the uploads in progress, by key and,
\* among those of one key, in the order they were created
ListMultipartUploads ==
  LET place(u) ==
        1 + Cardinality({v \in uploads :
              \/ LexLess(v.Key, u.Key)
              \/ v.Key = u.Key /\ v.UploadId < u.UploadId})
  IN  [p \in 1..Cardinality(uploads) |->
         CHOOSE u \in uploads : place(u) = p]

\* handler.py:423-426: the listing call.  A provider failure is re-raised
\* as S3UploadError; an answer without "Uploads" makes the sweep return 0;
\* otherwise the sweep holds the listing and goes on to line 428
SweepList(days_old, ok) ==
  LET call == [api |-> "list_multipart_uploads", Bucket |-> bucket_name,
               ok |-> ok]
      args == [op |-> "cleanup_incomplete_uploads", days_old |-> days_old,
               listed |-> <<>>]
  IN  /\ sweep.pc = "idle"
      /\ IF ~ok
         THEN /\ last' = args @@ [error |-> "S3UploadError",
                                   calls |-> <<call>>]
              /\ UNCHANGED sweep
         ELSE IF uploads = {}
         THEN /\ last' = args @@ [error |-> "none", calls |-> <<call>>,
                                   response |-> 0]
              /\ UNCHANGED sweep
         ELSE /\ sweep' = [pc |-> "listed", days_old |-> days_old,
                           Uploads |-> ListMultipartUploads,
                           calls |-> <<call>>]
              /\ UNCHANGED last
      /\ UNCHANGED <<bucket_name, config, uploads, objects, nextId, now>>

\* handler.py:428: datetime.utcnow() - timedelta(days=days_old).  The name
\* timedelta is not bound in handler.py (line 21 imports datetime only), so
\* the statement raises NameError; the except clause of line 439 names
\* ClientError and BotoCoreError only and the error leaves the call.  The
\* loop of lines 431-434 is never entered.
SweepCutoff ==
  /\ sweep.pc = "listed"
  /\ last' = [op |-> "cleanup_incomplete_uploads",
              days_old |-> sweep.days_old, listed |-> sweep.Uploads,
              error |-> "NameError", calls |-> sweep.calls]
  /\ sweep' = Idle
  /\ UNCHANGED <<bucket_name, config, uploads, objects, nextId, now>>

\* uploads other processes left in progress on the bucket: two on one key
\* (ten days old, one second old) and one on another key
SeedUploads ==
  { [UploadId |-> 101, Key |-> KeyX, Initiated |-> 0 - 10 * SecondsPerDay],
    [UploadId |-> 102, Key |-> KeyX, Initiated |-> 0 - 1],
    [UploadId |-> 103, Key |-> KeyK, Initiated |-> 0 - 10 * SecondsPerDay] }

SweepUploadIds == UploadIds \cup {u.UploadId : u \in SeedUploads}

InitSweep ==
  /\ bucket_name \in BucketNames
  /\ config = DefaultConfig
  /\ uploads \in SUBSET SeedUploads
  /\ objects = <<>>
  /\ nextId = 1
  /\ now = 0
  /\ last = [op |-> "__init__", error |-> "none", calls |-> <<>>]
  /\ sweep = Idle

NextSweep ==
  \/ \E ok \in BOOLEAN :
        InitiateUpload(<<"a",".","p","d","f">>, 1, Some(KeyX), ok)
  \/ \E u \in SweepUploadIds, k \in KnownKeys, ok \in BOOLEAN :
        CompleteUpload(u, k, << [PartNumber |-> 1, ETag |-> "e1"] >>, ok)
  \/ \E u \in SweepUploadIds, k \in KnownKeys, ok \in BOOLEAN :
        AbortUpload(u, k, ok)
  \/ \E d \in DaysOld, ok \in BOOLEAN : SweepList(d, ok)
  \/ SweepCutoff
  \/ \E d \in TickSteps : Tick(d)

SpecSweep == InitSweep /\ [][NextSweep]_vars

(***************************************************************************)
(* Properties.                                                             *)
(***************************************************************************)
\* C1: an initiate_upload whose file_size exceeds config.max_file_size
\* raises S3ValidationError, issues no provider call and leaves the
\* provider's in-progress uploads as they were.
C1_OversizeRejected ==
  [][(last'.op = "initiate_upload"
        /\ last'.file_size > config.max_file_size)
      => /\ last'.error = "S3ValidationError"
         /\ last'.calls = <<>>
         /\ uploads' = uploads]_vars

C1_Witness ==
  /\ last.op = "initiate_upload"
  /\ last.file_size = config.max_file_size + 1
  /\ last.error = "S3ValidationError"
  /\ uploads # {}

\* the least n with n * b >= a
Ceil(a, b) ==
  CHOOSE n \in (-1)..(MaxParts + 2) : n * b >= a /\ (n - 1) * b < a

\* C2: every initiate_upload that returns a response reports
\* parts_count = ceil(file_size / part_size), parts_count >= 1 and
\* part_size = config.part_size.
C2_PartsCount ==
  (last.op = "initiate_upload" /\ last.error = "none")
    => /\ last.response.parts_count = Ceil(last.file_size, config.part_size)
       /\ last.response.parts_count >= 1
       /\ last.response.part_size = config.part_size

\* C3: generate_presigned_url raises S3ValidationError, with no provider
\* call, exactly when part_number is outside 1..10000.
C3_PartNumberRange ==
  last.op = "generate_presigned_url"
    => /\ last.error = "S3ValidationError"
            <=> last.part_number \notin 1..10000
       /\ last.error = "S3ValidationError" => last.calls = <<>>
       /\ last.error # "S3ValidationError" => Len(last.calls) = 1

C3_Witness ==
  /\ last.op = "generate_presigned_url"
  /\ last.part_number = 10001
  /\ last.error = "S3ValidationError"
  /\ UploadsNamed(last.upload_id, last.key) # {}

\* C4: complete_upload with an empty parts list raises S3ValidationError,
\* issues no provider call and leaves the provider's uploads and objects as
\* they were.
C4_EmptyPartsRejected ==
  [][(last'.op = "complete_upload" /\ last'.parts = <<>>)
      => /\ last'.error = "S3ValidationError"
         /\ last'.calls = <<>>
         /\ uploads' = uploads
         /\ objects' = objects]_vars

C4_Witness ==
  /\ last.op = "complete_upload"
  /\ last.parts = <<>>
  /\ last.error = "S3ValidationError"
  /\ UploadsNamed(last.upload_id, last.key) # {}

\* how often each element occurs in a list
BagOfSeq(s) ==
  [x \in Range(s) |-> Cardinality({i \in 1..Len(s) : s[i] = x})]

\* C5: the list complete_upload submits is a permutation of the non-empty
\* input, every part with its own ETag, in ascending part-number order.
C5_SubmitsSortedPermutation ==
  (last.op = "complete_upload" /\ last.parts # <<>>)
    => LET sent == last.calls[1].Parts
       IN  /\ Len(last.calls) = 1
           /\ Len(sent) = Len(last.parts)
           /\ BagOfSeq(sent) = BagOfSeq(last.parts)
           /\ \A i \in 1..(Len(sent) - 1) :
                 sent[i].PartNumber <= sent[i + 1].PartNumber

C5_Witness ==
  /\ last.op = "complete_upload"
  /\ last.error = "none"
  /\ last.parts = << [PartNumber |-> 2, ETag |-> "e2"],
                     [PartNumber |-> 1, ETag |-> "e1"] >>
  /\ last.calls[1].Parts = << [PartNumber |-> 1, ETag |-> "e1"],
                              [PartNumber |-> 2, ETag |-> "e2"] >>

\* the uploads a sweep at the present time is to abort
StaleUploads(days_old) ==
  {u \in uploads : u.Initiated < now - days_old * SecondsPerDay}

\* C6: when every provider call succeeds, cleanup_incomplete_uploads aborts
\* exactly the in-progress uploads initiated before now - days_old days,
\* leaves the newer ones and returns the number it aborted.
C6_CleanupAbortsStale ==
  [][(/\ now' = now
      /\ last'.op = "cleanup_incomplete_uploads"
      /\ \A i \in 1..Len(last'.calls) : last'.calls[i].ok)
      => /\ last'.error = "none"
         /\ uploads' = uploads \ StaleUploads(last'.days_old)
         /\ last'.response = Cardinality(StaleUploads(last'.days_old))]_vars

\* the objects list_files is asked about
UnderPrefix(prefix) ==
  {objects[i] : i \in {j \in 1..Len(objects) :
                         StartsWith(objects[j].Key, prefix)}}

\* C7: for page >= 1 and page_size > 0, list_files returns total_count =
\* the number of objects under the prefix, total_pages =
\* ceil(total_count / page_size), and as files the window
\* [(page-1)*page_size, (page-1)*page_size + page_size) of those objects
\* ordered newest first, so last_modified never increases along files.
C7_ListFilesPage ==
  (/\ last.op = "list_files" /\ last.error = "none"
   /\ last.page >= 1 /\ last.page_size > 0)
    => LET r == last.response
           all == UnderPrefix(last.prefix)
           n == Cardinality(all)
           start == (last.page - 1) * last.page_size
           rest == IF n > start THEN n - start ELSE 0
       IN  /\ r.total_count = n
           /\ r.total_pages * last.page_size >= n
           /\ (r.total_pages - 1) * last.page_size < n
           /\ r.total_pages >= 0
           /\ Len(r.files) =
                IF rest < last.page_size THEN rest ELSE last.page_size
           /\ \A i \in 1..Len(r.files) :
                \E o \in all :
                   /\ r.files[i].key = o.Key
                   /\ r.files[i].last_modified = IsoFormat(o.LastModified)
                   /\ Cardinality({q \in all :
                         q.LastModified > o.LastModified}) <= start + i - 1
                   /\ Cardinality({q \in all :
                         q.LastModified >= o.LastModified}) >= start + i
           /\ \A i, j \in 1..Len(r.files) :
                i # j => r.files[i].key # r.files[j].key
           /\ \A i \in 1..(Len(r.files) - 1) :
                ~LexLess(r.files[i].last_modified,
                         r.files[i + 1].last_modified)

C7_Witness ==
  /\ last.op = "list_files" /\ last.error = "none"
  /\ last.page = 3 /\ last.page_size = 2
  /\ last.response.total_count = 5
  /\ last.response.total_pages = 3
  /\ Len(last.response.files) = 1
  /\ Len(last.calls) = 3

\* parts numbered 1..n, as a caller reports them after uploading
PartsOneTo(n) ==
  IF n < 1 THEN <<>>
  ELSE [i \in 1..n |-> [PartNumber |-> i, ETag |-> "e1"]]

\* C8: after an initiate_upload that returned a session, and with the
\* provider succeeding, generate_presigned_url succeeds for every part
\* number 1..parts_count and complete_upload with parts 1..parts_count
\* returns success = true with the session's key and bucket.
C8_RoundTrip ==
  (last.op = "initiate_upload" /\ last.error = "none")
    => LET r == last.response
       IN  /\ \A n \in 1..r.parts_count :
                ENABLED (/\ GeneratePresignedUrl(r.upload_id, r.key, n, TRUE)
                         /\ last'.error = "none")
           /\ ENABLED (/\ CompleteUpload(r.upload_id, r.key,
                                         PartsOneTo(r.parts_count), TRUE)
                       /\ last'.error = "none"
                       /\ last'.response.success
                       /\ last'.response.key = r.key
                       /\ last'.response.bucket = r.bucket)

\* the domain error each operation raises for a provider failure
DomainErrorOf(op) ==
  CASE op = "initiate_upload" -> "S3InitiationError"
    [] op = "delete_file" -> "S3DeleteError"
    [] op \in {"generate_presigned_url", "complete_upload", "abort_upload",
               "list_files", "generate_download_url",
               "cleanup_incomplete_uploads"} -> "S3UploadError"

\* C9: a failed provider call is the last call its operation issues (no
\* retry, no further call) and the operation raises its domain error:
\* S3InitiationError for initiate_upload, S3DeleteError for delete_file,
\* S3UploadError for the others.
C9_ProviderFailureMapped ==
  \A i \in 1..Len(last.calls) :
     ~last.calls[i].ok
       => /\ i = Len(last.calls)
          /\ last.error = DomainErrorOf(last.op)

C9_Witness ==
  /\ last.op = "delete_file"
  /\ last.error = "S3DeleteError"
  /\ Len(last.calls) = 1
  /\ ~last.calls[1].ok
  /\ \E i \in 1..Len(objects) : objects[i].Key = last.key

\* the lowercased text after the last "." of a filename
AfterLastDot(filename) ==
  LET dots == {i \in 1..Len(filename) : filename[i] = "."}
      from == IF dots = {} THEN 0
              ELSE CHOOSE i \in dots : \A j \in dots : j <= i
  IN  Lower(SubSeq(filename, from + 1, Len(filename)))

\* C10: with an extension allow-list configured, an initiate_upload within
\* the size limit is rejected with S3ValidationError, before any provider
\* call, exactly when the lowercased text after the last "." of the
\* filename is not in the list; with none configured no filename is
\* rejected.
C10_ExtensionAllowList ==
  (last.op = "initiate_upload" /\ last.file_size <= config.max_file_size)
    => IF config.allowed_extensions.some
       THEN /\ last.error = "S3ValidationError"
                 <=> AfterLastDot(last.filename)
                       \notin Range(config.allowed_extensions.value)
            /\ last.error = "S3ValidationError" => last.calls = <<>>
       ELSE last.error # "S3ValidationError"

IsDigit(c) == \E i \in 1..10 : Digits[i] = c

DigitVal(c) == (CHOOSE i \in 1..10 : Digits[i] = c) - 1

\* the number written by the two digits of s at i, i + 1 (-1 if they are
\* not digits)
Num2(s, i) ==
  IF IsDigit(s[i]) /\ IsDigit(s[i + 1])
  THEN 10 * DigitVal(s[i]) + DigitVal(s[i + 1])
  ELSE -1

\* key reads uploads/YYYY/MM/DD/HHMMSS_<filename> for the moment t
KeyMatchesPattern(key, filename, t) ==
  /\ Len(key) = 26 + Len(filename)
  /\ SubSeq(key, 1, 8) = <<"u","p","l","o","a","d","s","/">>
  /\ SubSeq(key, 9, 13) = <<"2","0","2","5","/">>
  /\ Num2(key, 14) = 12 /\ key[16] = "/"
  /\ Num2(key, 17) = 10 + (t \div SecondsPerDay) /\ key[19] = "/"
  /\ Num2(key, 20) \in 0..23 /\ Num2(key, 22) \in 0..59
  /\ Num2(key, 24) \in 0..59
  /\ Num2(key, 20) * 3600 + Num2(key, 22) * 60 + Num2(key, 24)
       = t % SecondsPerDay
  /\ key[26] = "_"
  /\ SubSeq(key, 27, Len(key)) = filename

C12_ConfigValidated ==
  /\ last.op = "S3Config"
       => (last.error = "ValidationError"
             <=> \/ last.fields.part_size < 5 * 1024 * 1024
                 \/ last.fields.presigned_url_expiry \notin 60..604800
                 \/ last.fields.max_file_size <= 0)
  /\ config.part_size >= 5 * 1024 * 1024
  /\ config.presigned_url_expiry \in 60..604800
  /\ config.max_file_size > 0

\* the step in which a sweep that obtained a listing returns or raises
SweepEnds == sweep.pc = "listed" /\ sweep'.pc = "idle"

\* the uploads of the sweep's listing older than its cutoff, in listing
\* order
StaleListed ==
  LET IsStale(u) == u.Initiated < now - sweep.days_old * SecondsPerDay
  IN  SelectSeq(sweep.Uploads, IsStale)

\* the abort calls among the provider calls of an operation
AbortCalls(calls) ==
  LET IsAbort(c) == c.api = "abort_multipart_upload"
  IN  SelectSeq(calls, IsAbort)

\* C13: a sweep that obtained its listing does not end with an error
\* because an abort failed: it ends normally, having issued an abort for
\* every stale upload of the listing.
C13_AbortFailureSkipped ==
  [][SweepEnds
      => /\ last'.error = "none"
         /\ \A i \in 1..Len(StaleListed) :
              \E j \in 1..Len(last'.calls) :
                 /\ last'.calls[j].api = "abort_multipart_upload"
                 /\ last'.calls[j].UploadId = StaleListed[i].UploadId]_vars

\* C14: a stale upload of the sweep's listing that a concurrent
\* complete_upload finalized before the sweep reached it is still sent an
\* abort call by the sweep.
C14_AbortsWithoutRecheck ==
  [][SweepEnds
      => \A i \in 1..Len(StaleListed) :
            (/\ StaleListed[i] \notin uploads
             /\ \E k \in 1..Len(objects) : objects[k].Key = StaleListed[i].Key)
              => \E j \in 1..Len(AbortCalls(last'.calls)) :
                    /\ AbortCalls(last'.calls)[j].UploadId
                         = StaleListed[i].UploadId
                    /\ AbortCalls(last'.calls)[j].Key = StaleListed[i].Key]_vars

\* C15: every parts list complete_upload passes to the provider has
\* pairwise distinct part numbers, each within 1..10000.
C15_SubmittedPartsValid ==
  (last.op = "complete_upload" /\ last.calls # <<>>)
    => LET sent == last.calls[1].Parts
       IN  /\ \A i, j \in 1..Len(sent) :
                i # j => sent[i].PartNumber # sent[j].PartNumber
           /\ \A i \in 1..Len(sent) : sent[i].PartNumber \in 1..10000

\* C16: for page_size > 0 and any page outside 1..total_pages, list_files
\* raises no error and returns no files, with total_count and total_pages
\* those of the full listing.
C16_OutOfRangePageEmpty ==
  (/\ last.op = "list_files" /\ last.page_size > 0
   /\ \A i \in 1..Len(last.calls) : last.calls[i].ok)
    => LET n == Cardinality(UnderPrefix(last.prefix))
           pages == IF n % last.page_size = 0 THEN n \div last.page_size
                    ELSE (n \div last.page_size) + 1
       IN  /\ last.error = "none"
           /\ last.page \notin 1..pages
                => /\ last.response.files = <<>>
                   /\ last.response.total_count = n
                   /\ last.response.total_pages = pages

RejectedLocally(call, cfg) ==
  CASE call.op = "initiate_upload" ->
         \/ call.file_size > cfg.max_file_size
         \/ /\ cfg.allowed_extensions.some
            /\ cfg.allowed_extensions.value # <<>>
            /\ AfterLastDot(call.filename)
                 \notin Range(cfg.allowed_extensions.value)
    [] call.op = "generate_presigned_url" -> call.part_number \notin 1..10000
    [] call.op = "complete_upload" -> Len(call.parts) = 0
    [] OTHER -> FALSE

\* C18: no facade operation changes the handler's bucket name or
\* configuration, and a call is refused locally (S3ValidationError, no
\* provider call) exactly when its own arguments and the configuration
\* say so, whatever ran before it.
C18_NoLocalState ==
  [][/\ bucket_name' = bucket_name
     /\ config' = config
     /\ last' # last
          => /\ last'.error = "S3ValidationError"
                  <=> RejectedLocally(last', config)
             /\ last'.error = "S3ValidationError" => last'.calls = <<>>
             /\ last'.error # "S3ValidationError" => last'.calls # <<>>]_vars

\* a presigned URL issued for a session that was completed before
C18_Witness ==
  /\ last.op = "generate_presigned_url" /\ last.error = "none"
  /\ last.upload_id = 1 /\ last.key = KeyX
  /\ nextId = 2
  /\ \A u \in uploads : u.UploadId # 1
  /\ \E i \in 1..Len(objects) : objects[i].Key = KeyX

\* C19: the abort calls of one sweep are exactly one per stale upload of
\* the listing the sweep obtained at its start, in the order of that
\* listing, and a sweep that returns returns the number of its abort calls
\* that succeeded.
C19_AbortsInListingOrder ==
  [][SweepEnds
      => LET aborts == AbortCalls(last'.calls)
             Succeeded(c) == c.ok
         IN  /\ Len(aborts) = Len(StaleListed)
             /\ \A i \in 1..Len(aborts) :
                   /\ aborts[i].UploadId = StaleListed[i].UploadId
                   /\ aborts[i].Key = StaleListed[i].Key
             /\ last'.error = "none"
                  => last'.response = Len(SelectSeq(aborts, Succeeded))]_vars

NonDecreasing(parts) ==
  \A i, j \in 1..Len(parts) :
     i < j => parts[i].PartNumber <= parts[j].PartNumber

\* complete_upload does not refuse the list and passes sent to the provider
FacadeSubmits(upload_id, key, parts, sent) ==
  ENABLED (/\ \E ok \in BOOLEAN : CompleteUpload(upload_id, key, parts, ok)
           /\ last'.error # "S3ValidationError"
           /\ Len(last'.calls) = 1
           /\ last'.calls[1].Parts = sent)

PageFiles(prefix, page, page_size) ==
  LET listing == ListObjectsV2(prefix)
  IN  ListFilesResponse(CollectPages(listing, NumListPages(listing)),
                        page, page_size).files

\* pages[1] \o ... \o pages[n]
RECURSIVE ConcatPages(_, _)
ConcatPages(pages, n) ==
  IF n = 0 THEN <<>> ELSE ConcatPages(pages, n - 1) \o pages[n]

\* C21: while the objects under a prefix stay as they are, the pages
\* 1..total_pages that list_files returns for a page_size > 0 partition
\* the listing: no page holds more than page_size files, every page before
\* the last holds exactly page_size, the last page is not empty when there
\* are objects, and the pages joined in order hold every object under the
\* prefix exactly once, newest first.
C21_PagesPartition ==
  (last.op = "list_files" /\ last.error = "none" /\ last.page_size > 0)
    => \E sz \in {last.page_size}, total \in {last.response.total_pages},
          all \in {UnderPrefix(last.prefix)} :
       \E pages \in {[p \in 1..total |-> PageFiles(last.prefix, p, sz)]} :
       \E joined \in {ConcatPages(pages, total)} :
           /\ last.response.total_count = Cardinality(all)
           /\ last.page \in 1..total
                => last.response.files = pages[last.page]
           /\ \A p \in 1..total :
                 /\ Len(pages[p]) <= sz
                 /\ p < total => Len(pages[p]) = sz
           /\ IF all = {} THEN total = 0
              ELSE total >= 1 /\ Len(pages[total]) >= 1
           /\ Len(joined) = Cardinality(all)
           /\ \A o \in all :
                 Cardinality({i \in 1..Len(joined) :
                    /\ joined[i].key = o.Key
                    /\ joined[i].last_modified
                         = IsoFormat(o.LastModified)}) = 1
           /\ \A i \in 1..(Len(joined) - 1) :
                 ~LexLess(joined[i].last_modified,
                          joined[i + 1].last_modified)

\* five objects listed three to a page; the last file of page 1 and the
\* first file of page 2 are of one age
C21_Witness ==
  /\ last.op = "list_files" /\ last.error = "none"
  /\ last.prefix = <<>> /\ last.page = 2 /\ last.page_size = 3
  /\ last.response.total_count = 5
  /\ last.response.total_pages = 2
  /\ Len(last.response.files) = 2
  /\ Len(PageFiles(last.prefix, 1, 3)) = 3
  /\ PageFiles(last.prefix, 1, 3)[3].last_modified
       = last.response.files[1].last_modified
  /\ PageFiles(last.prefix, 1, 3)[3].key # last.response.files[1].key

=============================================================================
